---- MODULE Spec2Model ----
(***************************************************************************)
(* Model of src/from/fromZmes.ts (cheminfo/dls-analysis): conversion of    *)
(* the parameter trees of a parsed .zmes file into the spectra of an       *)
(* Analysis.                                                               *)
(*                                                                         *)
(* A parameter node is a record [name, value, children]; children is the   *)
(* ordered sequence of child nodes (empty when the node has none).  A      *)
(* value is a record tagged with its JavaScript type.  A node reference    *)
(* returned by a lookup is modelled by the path (sequence of child         *)
(* indices) from the node the lookup started at, so that two nodes with    *)
(* the same content stay distinguishable.                                  *)
(***************************************************************************)
EXTENDS Integers, Sequences, FiniteSets, TLC

VARIABLES pc, records, idx, spectra, parameters, arg, out, found, remaining

vars == <<pc, records, idx, spectra, parameters, arg, out, found, remaining>>

(***************************************************************************)
(* Values and references                                                   *)
(***************************************************************************)
Undefined == [type |-> "undefined"]

Str(s) == [type |-> "string", v |-> s]

Num(n) == [type |-> "number", v |-> n]

F64(a) == [type |-> "Float64Array", v |-> a]

NotFound == [found |-> FALSE]

Ref(path) == [found |-> TRUE, path |-> path]

Node(n, v, c) == [name |-> n, value |-> v, children |-> c]

RECURSIVE NodeAt(_, _)
NodeAt(node, path) ==
  IF path = <<>> THEN node
  ELSE NodeAt(node.children[Head(path)], Tail(path))

\* parameter?.value for a reference obtained by a lookup started at node
ValueOf(node, ref) ==
  IF ref.found THEN NodeAt(node, ref.path).value ELSE Undefined

(***************************************************************************)
(* Parameter tree accessors                                                *)
(***************************************************************************)
RECURSIVE findParameterFrom(_, _, _)
findParameterFrom(children, i, name) ==
  IF i > Len(children) THEN NotFound
  ELSE IF children[i].name = name THEN Ref(<<i>>)
  ELSE findParameterFrom(children, i + 1, name)

findParameter(children, name) == findParameterFrom(children, 1, name)

RECURSIVE findParameterDeepRec(_, _)
RECURSIVE findInChildren(_, _, _)
findParameterDeepRec(parameter, name) ==
  IF parameter.name = name THEN Ref(<<>>)
  ELSE findInChildren(parameter.children, 1, name)

findInChildren(children, i, name) ==
  IF i > Len(children) THEN NotFound
  ELSE LET hit == findParameterDeepRec(children[i], name)
       IN IF hit.found THEN Ref(<<i>> \o hit.path)
          ELSE findInChildren(children, i + 1, name)

\* a post-order variant: the children are searched before the node itself
RECURSIVE findParameterDeepPost(_, _)
RECURSIVE findInChildrenPost(_, _, _)
findParameterDeepPost(parameter, name) ==
  LET below == findInChildrenPost(parameter.children, 1, name)
  IN IF below.found THEN below
     ELSE IF parameter.name = name THEN Ref(<<>>) ELSE NotFound

findInChildrenPost(children, i, name) ==
  IF i > Len(children) THEN NotFound
  ELSE LET hit == findParameterDeepPost(children[i], name)
       IN IF hit.found THEN Ref(<<i>> \o hit.path)
          ELSE findInChildrenPost(children, i + 1, name)

findParameterDeep(parameter, name) == findParameterDeepRec(parameter, name)

(***************************************************************************)
(* JavaScript objects and Maps: functions from keys to values              *)
(***************************************************************************)
EmptyObject == <<>>

Put(obj, key, val) ==
  [k \in DOMAIN obj \cup {key} |-> IF k = key THEN val ELSE obj[k]]

Has(obj, key) == key \in DOMAIN obj

(***************************************************************************)
(* buildVariables                                                          *)
(***************************************************************************)
Descriptor(p, s, l, u, d) ==
  [parameterName |-> p, symbol |-> s, label |-> l, units |-> u, isDependent |-> d]

\* the table with the symbol of the volume distribution repeated from the
\* intensity distribution above it
VARIABLE_DESCRIPTORS_DUP ==
  << Descriptor("Sizes", "x", "Particle diameter", "nm", FALSE),
     Descriptor("Particle Size Intensity Distribution", "y", "Intensity", "%", TRUE),
     Descriptor("Particle Size Volume Distribution (%)", "y", "Volume", "%", TRUE),
     Descriptor("Particle Size Number Distribution", "n", "Number", "%", TRUE),
     Descriptor("Molecular Weights", "w", "Molecular weight", "Da", TRUE),
     Descriptor("Diffusion Coefficients", "d", "Diffusion coefficient", "µm²/s", TRUE),
     Descriptor("Relaxation Times", "r", "Relaxation time", "µs", TRUE),
     Descriptor("Form Factor", "f", "Form factor", "", TRUE) >>

VARIABLE_DESCRIPTORS ==
  << Descriptor("Sizes", "x", "Particle diameter", "nm", FALSE),
     Descriptor("Particle Size Intensity Distribution", "y", "Intensity", "%", TRUE),
     Descriptor("Particle Size Volume Distribution (%)", "v", "Volume", "%", TRUE),
     Descriptor("Particle Size Number Distribution", "n", "Number", "%", TRUE),
     Descriptor("Molecular Weights", "w", "Molecular weight", "Da", TRUE),
     Descriptor("Diffusion Coefficients", "d", "Diffusion coefficient", "µm²/s", TRUE),
     Descriptor("Relaxation Times", "r", "Relaxation time", "µs", TRUE),
     Descriptor("Form Factor", "f", "Form factor", "", TRUE) >>

\* the loop body without the instanceof test: any defined value is taken
evalDescriptorAnyValue(acc, descriptor, params) ==
  LET parameter == findParameterDeep(params, descriptor.parameterName)
      value == ValueOf(params, parameter)
  IN IF value = Undefined THEN acc
     ELSE Put(acc, descriptor.symbol,
              [symbol |-> descriptor.symbol, label |-> descriptor.label,
               units |-> descriptor.units, data |-> value.v,
               isDependent |-> descriptor.isDependent])

\* one iteration of the loop over the descriptors: found.set(...) unless the
\* value of the node found is not a Float64Array
evalDescriptor(acc, descriptor, params) ==
  LET parameter == findParameterDeep(params, descriptor.parameterName)
      value == ValueOf(params, parameter)
  IN IF value.type # "Float64Array" THEN acc
     ELSE Put(acc, descriptor.symbol,
              [symbol |-> descriptor.symbol, label |-> descriptor.label,
               units |-> descriptor.units, data |-> value.v,
               isDependent |-> descriptor.isDependent])

RECURSIVE collectFound(_, _, _, _)
collectFound(table, i, acc, params) ==
  IF i > Len(table) THEN acc
  ELSE collectFound(table, i + 1, evalDescriptor(acc, table[i], params), params)

\* the end of buildVariables with the test (!x && !y)
variablesOfEither(map) ==
  IF ~Has(map, "x") /\ ~Has(map, "y") THEN Undefined
  ELSE [k \in (DOMAIN map \cap {"x", "y"}) \cup (DOMAIN map \ {"x", "y"}) |-> map[k]]

\* the end of buildVariables: undefined unless x and y were found, else
\* { x, y } plus every other entry of the map
variablesOf(map) ==
  IF ~Has(map, "x") \/ ~Has(map, "y") THEN Undefined
  ELSE [k \in {"x", "y"} \cup {key \in DOMAIN map : key # "x" /\ key # "y"} |-> map[k]]

buildVariables(params) ==
  variablesOf(collectFound(VARIABLE_DESCRIPTORS, 1, EmptyObject, params))

(***************************************************************************)
(* extractTitle                                                            *)
(***************************************************************************)
\* the title with "Sample Settings" looked up anywhere in the tree
extractTitleDeep(params) ==
  LET sampleSettings == findParameterDeep(params, "Sample Settings")
  IN IF ~sampleSettings.found THEN ""
     ELSE LET scope == NodeAt(params, sampleSettings.path)
              sampleName == findParameterDeep(scope, "Sample Name")
              value == ValueOf(scope, sampleName)
          IN IF value.type = "string" THEN value.v ELSE ""

extractTitle(params) ==
  LET sampleSettings == findParameter(params.children, "Sample Settings")
  IN IF ~sampleSettings.found THEN ""
     ELSE LET scope == NodeAt(params, sampleSettings.path)
              sampleName == findParameterDeep(scope, "Sample Name")
              value == ValueOf(scope, sampleName)
          IN IF value.type = "string" THEN value.v ELSE ""

(***************************************************************************)
(* extractMeta                                                             *)
(***************************************************************************)
Field(p, k) == [parameterName |-> p, key |-> k]

topLevelFields ==
  << Field("Operator Name", "operatorName"),
     Field("Measurement Start Date And Time", "measurementStartDateTime"),
     Field("Measurement Completed Date And Time", "measurementCompletedDateTime"),
     Field("Repeat", "repeat"),
     Field("Number Of Repeats", "numberOfRepeats"),
     Field("Pause Between Repeats (s)", "pauseBetweenRepeats"),
     Field("Quality Indicator", "qualityIndicator"),
     Field("Result State", "resultState"),
     Field("Measurement Type", "measurementType") >>

deepFields ==
  << Field("Z-Average (nm)", "zAverage"),
     Field("Polydispersity Index (PI)", "polydispersityIndex"),
     Field("Derived Mean Count Rate (kcps)", "derivedMeanCountRate") >>

\* meta[key] = value unless the value is undefined
putDefined(meta, key, value) ==
  IF value # Undefined THEN Put(meta, key, value) ELSE meta

\* the top-level fields looked up anywhere in the tree
RECURSIVE topLevelMetaDeep(_, _, _)
topLevelMetaDeep(params, i, meta) ==
  IF i > Len(topLevelFields) THEN meta
  ELSE LET parameter == findParameterDeep(params, topLevelFields[i].parameterName)
       IN topLevelMetaDeep(params, i + 1,
            putDefined(meta, topLevelFields[i].key, ValueOf(params, parameter)))

RECURSIVE topLevelMetaFrom(_, _, _)
topLevelMetaFrom(params, i, meta) ==
  IF i > Len(topLevelFields) THEN meta
  ELSE LET parameter == findParameter(params.children, topLevelFields[i].parameterName)
       IN topLevelMetaFrom(params, i + 1,
            putDefined(meta, topLevelFields[i].key, ValueOf(params, parameter)))

topLevelMeta(params, i, meta) == topLevelMetaFrom(params, i, meta)

RECURSIVE deepMeta(_, _, _)
deepMeta(params, i, meta) ==
  IF i > Len(deepFields) THEN meta
  ELSE LET parameter == findParameterDeep(params, deepFields[i].parameterName)
       IN deepMeta(params, i + 1,
            putDefined(meta, deepFields[i].key, ValueOf(params, parameter)))

\* the material fields looked up from the record root once "Material
\* Settings" exists
materialMetaUnscoped(params, meta) ==
  LET materialSettings == findParameterDeep(params, "Material Settings")
  IN IF ~materialSettings.found THEN meta
     ELSE LET materialRI == findParameterDeep(params, "Material RI")
              materialAbsorption == findParameterDeep(params, "Material Absorption")
          IN putDefined(putDefined(meta, "materialRI", ValueOf(params, materialRI)),
                        "materialAbsorption", ValueOf(params, materialAbsorption))

materialMeta(params, meta) ==
  LET materialSettings == findParameterDeep(params, "Material Settings")
  IN IF ~materialSettings.found THEN meta
     ELSE LET scope == NodeAt(params, materialSettings.path)
              materialRI == findParameterDeep(scope, "Material RI")
              materialAbsorption == findParameterDeep(scope, "Material Absorption")
          IN putDefined(putDefined(meta, "materialRI", ValueOf(scope, materialRI)),
                        "materialAbsorption", ValueOf(scope, materialAbsorption))

dispersantMeta(params, meta) ==
  LET dispersantViscosity == findParameterDeep(params, "Dispersant Viscosity (cP)")
      dispersantRI == findParameterDeep(params, "Dispersant RI")
  IN putDefined(putDefined(meta, "dispersantViscosity",
                           ValueOf(params, dispersantViscosity)),
                "dispersantRI", ValueOf(params, dispersantRI))

extractMeta(params) ==
  dispersantMeta(params,
    materialMeta(params,
      deepMeta(params, 1,
        topLevelMeta(params, 1, EmptyObject))))

(***************************************************************************)
(* extractSettings                                                         *)
(***************************************************************************)
instrumentSettingsFields ==
  << Field("Detector Angle (°)", "detectorAngle"),
     Field("Run Duration (s)", "runDuration"),
     Field("Number Of Runs", "numberOfRuns"),
     Field("Temperature (°C)", "temperature"),
     Field("Attenuator", "attenuator"),
     Field("Attenuation Factor", "attenuationFactor"),
     Field("Cuvette Position (mm)", "cuvettePosition"),
     Field("Laser Wavelength (nm)", "laserWavelength") >>

\* ...(typeof value === 'string' ? { key: value } : {})
spreadIfString(obj, key, value) ==
  IF value.type = "string" THEN Put(obj, key, value) ELSE obj

\* the instrument object with the model written only next to a serial number
instrumentOfSerial(params) ==
  LET softwareVersion == findParameter(params.children, "Software Version")
      instrumentSerialNumber == findParameterDeep(params, "Instrument Serial Number")
      serial == ValueOf(params, instrumentSerialNumber)
      software == spreadIfString(Put(EmptyObject, "name", "ZS XPLORER"), "version",
                                 ValueOf(params, softwareVersion))
      base == Put(EmptyObject, "manufacturer", "Malvern Panalytical")
  IN Put(IF serial.type = "string"
         THEN Put(Put(base, "model", "Zetasizer"), "serialNumber", serial)
         ELSE base,
         "software", software)

instrumentOf(params) ==
  LET softwareVersion == findParameter(params.children, "Software Version")
      instrumentSerialNumber == findParameterDeep(params, "Instrument Serial Number")
      software == spreadIfString(Put(EmptyObject, "name", "ZS XPLORER"), "version",
                                 ValueOf(params, softwareVersion))
  IN Put(spreadIfString(Put(Put(EmptyObject, "manufacturer", "Malvern Panalytical"),
                            "model", "Zetasizer"),
                        "serialNumber", ValueOf(params, instrumentSerialNumber)),
         "software", software)

\* settings[key] = value for every value that is not undefined
putNumberLoose(settings, key, value) ==
  IF value # Undefined THEN Put(settings, key, value) ELSE settings

\* settings[key] = value if typeof value === 'number'
putNumber(settings, key, value) ==
  IF value.type = "number" THEN Put(settings, key, value) ELSE settings

RECURSIVE instrumentSettings(_, _, _)
instrumentSettings(params, i, settings) ==
  IF i > Len(instrumentSettingsFields) THEN settings
  ELSE LET parameter ==
             findParameterDeep(params, instrumentSettingsFields[i].parameterName)
       IN instrumentSettings(params, i + 1,
            putNumber(settings, instrumentSettingsFields[i].key,
                      ValueOf(params, parameter)))

extractSettings(params) ==
  instrumentSettings(params, 1, Put(EmptyObject, "instrument", instrumentOf(params)))

(***************************************************************************)
(* Input trees: every ordered tree of at most n nodes over a label set     *)
(***************************************************************************)
RECURSIVE TreesN(_, _)
RECURSIVE ForestsN(_, _)
TreesN(labels, n) ==
  IF n = 0 THEN {}
  ELSE {Node(l.name, l.value, f) : l \in labels, f \in ForestsN(labels, n - 1)}

ForestsN(labels, m) ==
  IF m = 0 THEN {<<>>}
  ELSE UNION {{<<t>> \o f : t \in TreesN(labels, k), f \in ForestsN(labels, m - k)}
              : k \in 1..m}

Labels(names, values) == {[name |-> n, value |-> v] : n \in names, v \in values}

\* the paths of the nodes of a tree, in depth-first pre-order
RECURSIVE PreOrder(_)
RECURSIVE PreOrderFrom(_, _)
PreOrder(node) == <<<<>>>> \o PreOrderFrom(node.children, 1)

PreOrderFrom(children, i) ==
  IF i > Len(children) THEN <<>>
  ELSE LET sub == PreOrder(children[i])
       IN [k \in 1..Len(sub) |-> <<i>> \o sub[k]] \o PreOrderFrom(children, i + 1)

\* the pre-order positions of the nodes named name
Matches(node, name) ==
  LET po == PreOrder(node)
  IN {k \in 1..Len(po) : NodeAt(node, po[k]).name = name}

\* the value of the first node named name in pre-order, undefined if none
FirstValue(node, name) ==
  LET po == PreOrder(node)
      hits == Matches(node, name)
  IN IF hits = {} THEN Undefined
     ELSE NodeAt(node, po[CHOOSE k \in hits : \A j \in hits : k <= j]).value

\* the value of the first direct child named name, undefined if none
FirstChildValue(node, name) ==
  LET hits == {i \in 1..Len(node.children) : node.children[i].name = name}
  IN IF hits = {} THEN Undefined
     ELSE node.children[CHOOSE i \in hits : \A j \in hits : i <= j].value

NoNode == Node("", Undefined, <<>>)

(***************************************************************************)
(* fromZmes: parse the file, then one spectrum per record with x and y     *)
(***************************************************************************)
MaxRecords == 2

MaxRecordNodes == 3

Guids == {"guid-1", "guid-2"}

RecordLabels ==
  {[name |-> "Sizes", value |-> F64(<<1>>)],
   [name |-> "Particle Size Intensity Distribution", value |-> F64(<<2>>)],
   [name |-> "Particle Size Intensity Distribution", value |-> Str("n/a")],
   [name |-> "Temperature (°C)", value |-> Num(25)]}

\* the records whose tree has k nodes
RecordsOfSize(k) ==
  {[guid |-> g, parameters |-> t] : g \in Guids, t \in TreesN(RecordLabels, k)}

\* the files of n records
Files(n) ==
  LET RecordSet == UNION {RecordsOfSize(k) : k \in 1..MaxRecordNodes}
  IN [1..n -> RecordSet]

\* analysis.pushSpectrum(variables, options) of the Analysis container
pushSpectrum(sp, variables, options) ==
  Append(sp, [variables |-> variables, id |-> options.id, title |-> options.title,
              dataType |-> options.dataType, meta |-> options.meta])

\* the index of analysis.spectra.at(0)
atFirst(sp) == IF sp = <<>> THEN 0 ELSE 1

\* the index of analysis.spectra.at(-1), 0 when there is none
atLast(sp) == Len(sp)

Init ==
  /\ pc = "parse"
  /\ records = <<>>
  /\ idx = 1
  /\ spectra = <<>>
  /\ parameters = NoNode
  /\ arg = ""
  /\ out = NotFound
  /\ found = <<>>
  /\ remaining = {}

\* await parse(data) resolves with the records of the file
Parse ==
  /\ pc = "parse"
  /\ \E n \in 0..MaxRecords : records' \in Files(n)
  /\ pc' = "loop"
  /\ UNCHANGED <<idx, spectra, parameters, arg, out, found, remaining>>

\* await parse(data) rejects: the error reaches the caller
ParseFails ==
  /\ pc = "parse"
  /\ pc' = "rejected"
  /\ UNCHANGED <<records, idx, spectra, parameters, arg, out, found, remaining>>

\* an iteration that ends at the continue
SkipRecord ==
  /\ pc = "loop"
  /\ idx <= Len(records)
  /\ buildVariables(records[idx].parameters) = Undefined
  /\ parameters' = records[idx].parameters
  /\ idx' = idx + 1
  /\ UNCHANGED <<pc, records, spectra, arg, out, found, remaining>>

\* an iteration that pushes the spectrum and sets its settings
PushRecord ==
  /\ pc = "loop"
  /\ idx <= Len(records)
  /\ LET record == records[idx]
         variables == buildVariables(record.parameters)
         pushed == pushSpectrum(spectra, variables,
                     [id |-> record.guid,
                      title |-> extractTitle(record.parameters),
                      dataType |-> "Size measurement",
                      meta |-> extractMeta(record.parameters)])
         spectrum == atLast(pushed)
     IN /\ variables # Undefined
        /\ spectra' =
             IF spectrum # 0
             THEN [pushed EXCEPT ![spectrum] =
                     Put(pushed[spectrum], "settings",
                         extractSettings(record.parameters))]
             ELSE pushed
        /\ parameters' = record.parameters
  /\ idx' = idx + 1
  /\ UNCHANGED <<pc, records, arg, out, found, remaining>>

\* the loop is over: return analysis
Return ==
  /\ pc = "loop"
  /\ idx > Len(records)
  /\ pc' = "done"
  /\ UNCHANGED <<records, idx, spectra, parameters, arg, out, found, remaining>>

Next == Parse \/ ParseFails \/ SkipRecord \/ PushRecord \/ Return

Spec == Init /\ [][Next]_vars

\* the deep lookups of x and y both yield a Float64Array
YieldsXY(record) ==
  /\ FirstValue(record.parameters, "Sizes").type = "Float64Array"
  /\ FirstValue(record.parameters, "Particle Size Intensity Distribution").type
       = "Float64Array"

\* the records among the first n that are not skipped, in file order
RECURSIVE Kept(_)
Kept(n) ==
  IF n = 0 THEN <<>>
  ELSE IF YieldsXY(records[n]) THEN Append(Kept(n - 1), n) ELSE Kept(n - 1)

\* C1: a record whose deep lookup of "Sizes" or of "Particle Size Intensity
\* Distribution" does not yield a Float64Array produces no entry, every other
\* record produces one: after any number of iterations the collection has
\* as many entries as there are processed records with both arrays.
C1_SkippedExactly ==
  Len(spectra) = Cardinality({i \in 1..(idx - 1) : YieldsXY(records[i])})

\* both kinds of record were processed: one skipped, one kept
C1_Witness ==
  /\ pc = "done"
  /\ Len(records) = 2
  /\ ~YieldsXY(records[1])
  /\ FirstValue(records[1].parameters, "Sizes").type = "Float64Array"
  /\ YieldsXY(records[2])
  /\ Len(spectra) = 1

\* C9: the entries are those of the records not skipped, in file order; each
\* entry has the guid of its record as id and the variables, title, meta and
\* settings extracted from that same record.
C9_EntriesFollowRecords ==
  LET kept == Kept(idx - 1)
  IN /\ Len(spectra) = Len(kept)
     /\ \A j \in 1..Len(spectra) :
          LET record == records[kept[j]]
          IN /\ spectra[j].id = record.guid
             /\ spectra[j].dataType = "Size measurement"
             /\ spectra[j].variables = buildVariables(record.parameters)
             /\ spectra[j].title = extractTitle(record.parameters)
             /\ spectra[j].meta = extractMeta(record.parameters)
             /\ Has(spectra[j], "settings")
             /\ spectra[j].settings = extractSettings(record.parameters)

\* two entries of different records, with different guids and settings
C9_Witness ==
  /\ pc = "done"
  /\ Len(spectra) = 2
  /\ spectra[1].id # spectra[2].id
  /\ spectra[1].settings # spectra[2].settings

(***************************************************************************)
(* Lookup specification: findParameterDeep applied to a tree and a name    *)
(***************************************************************************)
MaxNodes == 4

FindNames == {"Sizes", "Sample Name", "Material RI"}

FindTrees(k) == TreesN(Labels(FindNames, {Undefined}), k)

\* a function of the module is about to be applied to one tree of trees
InitOn(trees) ==
  /\ pc = "input"
  /\ parameters \in trees
  /\ records = <<>>
  /\ idx = 1
  /\ spectra = <<>>
  /\ arg = ""
  /\ out = NotFound
  /\ found = <<>>
  /\ remaining = {}

InitFind == \E k \in 1..MaxNodes : InitOn(FindTrees(k))

CallFindParameterDeep ==
  /\ pc = "input"
  /\ \E name \in FindNames :
       /\ arg' = name
       /\ out' = findParameterDeep(parameters, name)
  /\ pc' = "findParameterDeep"
  /\ UNCHANGED <<records, idx, spectra, parameters, found, remaining>>

NextFind == CallFindParameterDeep

SpecFind == InitFind /\ [][NextFind]_vars

\* C3: findParameterDeep returns the first node in depth-first pre-order
\* (root first, children in stored order) whose name equals the name, and
\* returns undefined exactly when no node of the tree has that name.
C3_FirstInPreOrder ==
  pc = "findParameterDeep" =>
    LET po == PreOrder(parameters)
        hits == Matches(parameters, arg)
    IN /\ (hits = {}) <=> ~out.found
       /\ hits # {} =>
            /\ out.found
            /\ out.path = po[CHOOSE k \in hits : \A j \in hits : k <= j]

\* a tree with two nodes of the searched name, the first of them not the root
C3_Witness ==
  /\ pc = "findParameterDeep"
  /\ Cardinality(Matches(parameters, arg)) >= 2
  /\ out.found
  /\ out.path # <<>>
  /\ Len(NodeAt(parameters, <<>>).children) >= 2

(***************************************************************************)
(* buildVariables applied to a tree                                        *)
(***************************************************************************)
MaxVarsNodes == 4

OptionalNames == {VARIABLE_DESCRIPTORS[i].parameterName : i \in 3..Len(VARIABLE_DESCRIPTORS)}

\* Sizes and the intensity distribution as arrays with one optional field,
\* which holds either of two arrays or a string
VarsLabels(optional) ==
  Labels({"Sizes"}, {F64(<<1>>)})
    \cup Labels({"Particle Size Intensity Distribution"}, {F64(<<2>>)})
    \cup Labels({optional}, {F64(<<3>>), F64(<<4>>), Str("n/a")})

InitVars ==
  \E o \in OptionalNames, k \in 1..MaxVarsNodes : InitOn(TreesN(VarsLabels(o), k))

CallBuildVariables ==
  /\ pc = "input"
  /\ out' = buildVariables(parameters)
  /\ pc' = "buildVariables"
  /\ UNCHANGED <<records, idx, spectra, parameters, arg, found, remaining>>

NextVars == CallBuildVariables

SpecVars == InitVars /\ [][NextVars]_vars

\* the nodes of the tree named name whose value is a Float64Array
ArrayNodes(node, name) ==
  LET po == PreOrder(node)
  IN {k \in Matches(node, name) : NodeAt(node, po[k]).value.type = "Float64Array"}

\* the variable a descriptor yields for an array
VariableOf(descriptor, data) ==
  [symbol |-> descriptor.symbol, label |-> descriptor.label,
   units |-> descriptor.units, data |-> data,
   isDependent |-> descriptor.isDependent]

\* C2 as stated: in a produced entry x and y are present, and an optional
\* symbol is present if and only if some node with its parameter name holds
\* a Float64Array anywhere in the tree; a present variable carries the
\* label, units and isDependent of its descriptor and the array of such a
\* node.
C2_PresentIffArrayExists ==
  (pc = "buildVariables" /\ out # Undefined) =>
    /\ Has(out, "x")
    /\ Has(out, "y")
    /\ \A i \in 3..Len(VARIABLE_DESCRIPTORS) :
         LET d == VARIABLE_DESCRIPTORS[i]
         IN /\ Has(out, d.symbol) <=> ArrayNodes(parameters, d.parameterName) # {}
            /\ Has(out, d.symbol) =>
                 \E k \in ArrayNodes(parameters, d.parameterName) :
                   out[d.symbol] =
                     VariableOf(d, NodeAt(parameters, PreOrder(parameters)[k]).value.v)

\* C2 (amended): in a produced entry x and y are present, and a symbol is
\* present if and only if the first node in pre-order with its parameter
\* name holds a Float64Array; a present variable carries the label, units
\* and isDependent of its descriptor and the array of that first node.
C2_PresentIffFirstIsArray ==
  (pc = "buildVariables" /\ out # Undefined) =>
    /\ Has(out, "x")
    /\ Has(out, "y")
    /\ DOMAIN out \subseteq {"x", "y", "v", "n", "w", "d", "r", "f"}
    /\ \A i \in 1..Len(VARIABLE_DESCRIPTORS) :
         LET d == VARIABLE_DESCRIPTORS[i]
             first == FirstValue(parameters, d.parameterName)
         IN /\ Has(out, d.symbol) <=> first.type = "Float64Array"
            /\ Has(out, d.symbol) => out[d.symbol] = VariableOf(d, first.v)

\* an entry with an optional variable taken from the first of two arrays
C2_Witness ==
  /\ pc = "buildVariables"
  /\ out # Undefined
  /\ \E i \in 3..Len(VARIABLE_DESCRIPTORS) :
       LET d == VARIABLE_DESCRIPTORS[i]
       IN /\ Has(out, d.symbol)
          /\ Cardinality(ArrayNodes(parameters, d.parameterName)) = 2
          /\ out[d.symbol].data = <<4>>

(***************************************************************************)
(* The loop of buildVariables with its descriptors taken in any order      *)
(***************************************************************************)
MaxOrderNodes == 3

\* Sizes and the intensity distribution as arrays, the volume distribution as
\* an array or a string, the form factor as an array
OrderLabels ==
  {[name |-> "Sizes", value |-> F64(<<1>>)],
   [name |-> "Particle Size Intensity Distribution", value |-> F64(<<2>>)],
   [name |-> "Particle Size Volume Distribution (%)", value |-> F64(<<3>>)],
   [name |-> "Particle Size Volume Distribution (%)", value |-> Str("n/a")],
   [name |-> "Form Factor", value |-> F64(<<4>>)]}

OrderTrees(k) == TreesN(OrderLabels, k)

InitOrder ==
  /\ pc = "descriptors"
  /\ \E k \in 1..MaxOrderNodes : parameters \in OrderTrees(k)
  /\ records = <<>>
  /\ idx = 1
  /\ spectra = <<>>
  /\ arg = ""
  /\ out = NotFound
  /\ found = EmptyObject
  /\ remaining = 1..Len(VARIABLE_DESCRIPTORS)

\* the loop body for one of the descriptors not yet evaluated
EvalDescriptor ==
  /\ pc = "descriptors"
  /\ \E i \in remaining :
       /\ found' = evalDescriptor(found, VARIABLE_DESCRIPTORS[i], parameters)
       /\ remaining' = remaining \ {i}
  /\ UNCHANGED <<pc, records, idx, spectra, parameters, arg, out>>

\* every descriptor was evaluated: the result is built from the map
FinishBuild ==
  /\ pc = "descriptors"
  /\ remaining = {}
  /\ out' = variablesOf(found)
  /\ pc' = "built"
  /\ UNCHANGED <<records, idx, spectra, parameters, arg, found, remaining>>

NextOrder == EvalDescriptor \/ FinishBuild

SpecOrder == InitOrder /\ [][NextOrder]_vars

\* C10: whatever the order in which the eight descriptors are evaluated,
\* the result is the one buildVariables gives in the order of the table.
C10_OrderIndependent ==
  pc = "built" => out = buildVariables(parameters)

\* a result with x, y and v, reached through the orders of evaluation
C10_Witness ==
  /\ pc = "built"
  /\ out # Undefined
  /\ DOMAIN out = {"x", "y", "v"}

(***************************************************************************)
(* extractTitle applied to a tree                                          *)
(***************************************************************************)
TitleLabels ==
  Labels({"Sample Settings", "Sample Details"}, {Undefined})
    \cup Labels({"Sample Name"}, {Str("TEST XX230.A"), Str("blank"), Num(1)})

InitTitle == \E k \in 1..MaxNodes : InitOn(TreesN(TitleLabels, k))

CallExtractTitle ==
  /\ pc = "input"
  /\ out' = extractTitle(parameters)
  /\ pc' = "extractTitle"
  /\ UNCHANGED <<records, idx, spectra, parameters, arg, found, remaining>>

NextTitle == CallExtractTitle

SpecTitle == InitTitle /\ [][NextTitle]_vars

\* the direct children of node named name
ChildrenNamed(node, name) ==
  {i \in 1..Len(node.children) : node.children[i].name = name}

\* C5: the title is the empty string when no direct child of the root is
\* named "Sample Settings"; otherwise it is the string of the first "Sample
\* Name" in pre-order within the first such child (the empty string when
\* there is none or its value is no string).
C5_Title ==
  pc = "extractTitle" =>
    LET hits == ChildrenNamed(parameters, "Sample Settings")
    IN IF hits = {} THEN out = ""
       ELSE LET scope == parameters.children[CHOOSE i \in hits : \A j \in hits : i <= j]
                name == FirstValue(scope, "Sample Name")
            IN out = IF name.type = "string" THEN name.v ELSE ""

\* a title taken from below "Sample Settings" while another "Sample Name"
\* with another string comes earlier in the tree
C5_Witness ==
  /\ pc = "extractTitle"
  /\ out # ""
  /\ FirstValue(parameters, "Sample Name").type = "string"
  /\ FirstValue(parameters, "Sample Name").v # out

(***************************************************************************)
(* extractMeta applied to a tree                                           *)
(***************************************************************************)
MaterialLabels ==
  Labels({"Material Settings", "Core Characteristics"}, {Undefined})
    \cup Labels({"Material RI"}, {Num(17), Num(26), Undefined})
    \cup Labels({"Material Absorption"}, {Num(1)})

\* one field of the tables of extractMeta as a string or without value,
\* next to nodes of another name
FieldLabels(name) ==
  Labels({name}, {Str("GoodData"), Undefined})
    \cup Labels({"Sample Settings"}, {Undefined})

MetaFieldNames ==
  {topLevelFields[i].parameterName : i \in 1..Len(topLevelFields)}
    \cup {deepFields[i].parameterName : i \in 1..Len(deepFields)}
    \cup {"Dispersant Viscosity (cP)", "Dispersant RI"}

\* two top-level fields in one tree
PairLabels ==
  Labels({"Operator Name"}, {Str("gbf-network")})
    \cup Labels({"Repeat"}, {Num(2), Undefined})
    \cup Labels({"Sample Settings"}, {Undefined})

InitMeta ==
  \/ \E k \in 1..MaxNodes : InitOn(TreesN(MaterialLabels, k))
  \/ \E name \in MetaFieldNames, k \in 1..MaxNodes : InitOn(TreesN(FieldLabels(name), k))
  \/ \E k \in 1..MaxNodes : InitOn(TreesN(PairLabels, k))

CallExtractMeta ==
  /\ pc = "input"
  /\ out' = extractMeta(parameters)
  /\ pc' = "extractMeta"
  /\ UNCHANGED <<records, idx, spectra, parameters, arg, found, remaining>>

NextMeta == CallExtractMeta

SpecMeta == InitMeta /\ [][NextMeta]_vars

\* the path of the first node named name in pre-order
FirstPath(node, name) ==
  LET po == PreOrder(node)
      hits == Matches(node, name)
  IN po[CHOOSE k \in hits : \A j \in hits : k <= j]

MaterialFields ==
  {Field("Material RI", "materialRI"), Field("Material Absorption", "materialAbsorption")}

\* C4: materialRI and materialAbsorption are absent when the tree has no
\* "Material Settings" node; otherwise each is the value of the first node
\* of its name inside the subtree of the first "Material Settings" node, and
\* is absent when that subtree has no such node with a value, whatever
\* nodes of that name exist outside the subtree.
C4_MaterialScoped ==
  pc = "extractMeta" =>
    \A f \in MaterialFields :
      IF Matches(parameters, "Material Settings") = {} THEN ~Has(out, f.key)
      ELSE LET scope == NodeAt(parameters, FirstPath(parameters, "Material Settings"))
               inside == FirstValue(scope, f.parameterName)
           IN /\ Has(out, f.key) <=> inside # Undefined
              /\ Has(out, f.key) => out[f.key] = inside

\* a "Material RI" with a value exists only outside the "Material Settings"
\* subtree and is not returned
C4_Witness ==
  /\ pc = "extractMeta"
  /\ Matches(parameters, "Material Settings") # {}
  /\ FirstValue(parameters, "Material RI") # Undefined
  /\ ~Has(out, "materialRI")

AllMetaKeys ==
  {topLevelFields[i].key : i \in 1..Len(topLevelFields)}
    \cup {deepFields[i].key : i \in 1..Len(deepFields)}
    \cup {"materialRI", "materialAbsorption", "dispersantViscosity", "dispersantRI"}

\* C8: each of the nine top-level keys is present if and only if the first
\* direct child of the root with its parameter name has a defined value, and
\* then holds that value unchanged; no key holds undefined, and a tree
\* without any node of a name of the tables yields the empty mapping.
C8_TopLevelMeta ==
  pc = "extractMeta" =>
    /\ \A i \in 1..Len(topLevelFields) :
         LET f == topLevelFields[i]
             child == FirstChildValue(parameters, f.parameterName)
         IN /\ Has(out, f.key) <=> child # Undefined
            /\ Has(out, f.key) => out[f.key] = child
    /\ DOMAIN out \subseteq AllMetaKeys
    /\ \A k \in DOMAIN out : out[k] # Undefined
    /\ (\A name \in MetaFieldNames \cup {"Material Settings"} :
          Matches(parameters, name) = {}) => out = EmptyObject

\* a top-level field that has a value only below the direct children, and a
\* direct child without value: the key is absent
C8_Witness ==
  /\ pc = "extractMeta"
  /\ FirstValue(parameters, "Quality Indicator") = Str("GoodData")
  /\ ChildrenNamed(parameters, "Quality Indicator") # {}
  /\ ~Has(out, "qualityIndicator")

(***************************************************************************)
(* extractSettings applied to a tree                                       *)
(***************************************************************************)
SettingsFieldNames ==
  {instrumentSettingsFields[i].parameterName : i \in 1..Len(instrumentSettingsFields)}
    \cup {"Software Version", "Instrument Serial Number"}

\* one field of extractSettings as a string, a number or without value
SettingLabels(name) ==
  Labels({name}, {Str("4.1.0.82"), Num(173), Undefined})
    \cup Labels({"Actual Instrument Settings"}, {Undefined})

\* the two strings and a number in one tree
IdentityLabels ==
  Labels({"Software Version"}, {Str("4.1.0.82")})
    \cup Labels({"Instrument Serial Number"}, {Str("100038577")})
    \cup Labels({"Attenuator"}, {Num(7)})
    \cup Labels({"Actual Instrument Settings"}, {Undefined})

InitSettings ==
  \/ \E name \in SettingsFieldNames, k \in 1..MaxNodes :
       InitOn(TreesN(SettingLabels(name), k))
  \/ \E k \in 1..MaxNodes : InitOn(TreesN(IdentityLabels, k))

CallExtractSettings ==
  /\ pc = "input"
  /\ out' = extractSettings(parameters)
  /\ pc' = "extractSettings"
  /\ UNCHANGED <<records, idx, spectra, parameters, arg, found, remaining>>

NextSettings == CallExtractSettings

SpecSettings == InitSettings /\ [][NextSettings]_vars

\* C6: the settings always hold the manufacturer, the model and the
\* software name, whatever the tree.
C6_InstrumentConstants ==
  pc = "extractSettings" =>
    /\ Has(out, "instrument")
    /\ Has(out.instrument, "manufacturer")
    /\ out.instrument.manufacturer = "Malvern Panalytical"
    /\ Has(out.instrument, "model")
    /\ out.instrument.model = "Zetasizer"
    /\ Has(out.instrument, "software")
    /\ Has(out.instrument.software, "name")
    /\ out.instrument.software.name = "ZS XPLORER"

\* settings of a tree without serial number and without software version
C6_Witness ==
  /\ pc = "extractSettings"
  /\ Matches(parameters, "Instrument Serial Number") = {}
  /\ Matches(parameters, "Software Version") = {}
  /\ DOMAIN out.instrument = {"manufacturer", "model", "software"}
  /\ DOMAIN out.instrument.software = {"name"}

\* C7: serialNumber is present iff the first "Instrument Serial Number" in
\* pre-order holds a string, software.version iff the first direct child
\* named "Software Version" holds a string, and each of the eight numeric
\* keys iff the first node of its name in pre-order holds a number; a
\* present key holds that value unchanged, and no other key is written.
C7_TypedSettings ==
  pc = "extractSettings" =>
    LET serial == FirstValue(parameters, "Instrument Serial Number")
        version == FirstChildValue(parameters, "Software Version")
    IN /\ Has(out, "instrument") /\ Has(out.instrument, "software")
       /\ Has(out.instrument, "serialNumber") <=> serial.type = "string"
       /\ Has(out.instrument, "serialNumber") => out.instrument.serialNumber = serial
       /\ Has(out.instrument.software, "version") <=> version.type = "string"
       /\ Has(out.instrument.software, "version") =>
            out.instrument.software.version = version
       /\ \A i \in 1..Len(instrumentSettingsFields) :
            LET f == instrumentSettingsFields[i]
                first == FirstValue(parameters, f.parameterName)
            IN /\ Has(out, f.key) <=> first.type = "number"
               /\ Has(out, f.key) => out[f.key] = first
       /\ DOMAIN out \subseteq
            {"instrument"} \cup
            {instrumentSettingsFields[i].key : i \in 1..Len(instrumentSettingsFields)}

\* a numeric setting whose first node holds a string, before a node of the
\* same name that holds a number: the key is absent
C7_Witness ==
  /\ pc = "extractSettings"
  /\ FirstValue(parameters, "Temperature (°C)").type = "string"
  /\ \E k \in Matches(parameters, "Temperature (°C)") :
       NodeAt(parameters, PreOrder(parameters)[k]).value.type = "number"
  /\ ~Has(out, "temperature")

====
